---- MODULE Spec2Model ----
(***************************************************************************)
(* The cupdance audio engine (cupdance/audio/engine.py): the channel slate, *)
(* the structural lock, the audio thread's callback and the control         *)
(* thread's operations, as a two-thread state machine.                      *)
(*                                                                          *)
(* Samples are fixed-point: One stands for the float 1.0.                   *)
(***************************************************************************)
EXTENDS Integers, Sequences, FiniteSets, TLC

(* ------------------------------ bounds --------------------------------- *)

\* frames per callback block (the program runs 512)
Frames == 2
\* the highest channel index handed to set_synth / set_param / toggle_mute
MaxChannel == 4
\* the largest block length asked of a generator on its own
MaxBlock == 3

(* ------------------------- program constants --------------------------- *)

\* the float 1.0 (the clip limit, the default channel volume)
One == 10
\* master_volume default 0.8
MasterVol == 8
\* Synth.gain 0.5
Gain == 5
\* len(self.mutes) = len(self.vols) = 4, and the literal 4 of the mixer loop
NumStrips == 4
\* samples per oscillator cycle of a model voice: one cycle every two blocks
Period == 2 * Frames

None == "None"
\* synth instances handed to set_synth: a sound voice and an instance whose
\* generate() raises
GoodVoices == {"v1"}
Voices == GoodVoices \cup {"bad"}
\* channel indices the control thread uses: the first two mixer strips and one
\* index beyond the four strips (growing the slate to it leaves placeholders)
Channels == {0, 1, MaxChannel}
ParamNames == {"pitch"}
ParamValues == {0, One}

VARIABLES
  active_synths,  \* self.active_synths: sequence of None / voice
  mutes,          \* self.mutes
  vols,           \* self.vols
  global_mute,    \* self.global_mute
  lock,           \* self.lock: "free", or the thread holding it
  viz_buffer,     \* self.viz_buffer
  phase,          \* per voice: its oscillator's phase, in samples
  params,         \* per voice: Synth.params
  sp_log,         \* the last engine set_param call and what it did
  cb_pc,          \* audio thread: position inside callback
  cb_i,           \* audio thread: loop index of the mixing pass
  mixed,          \* audio thread: the local mix buffer
  exc,            \* audio thread: an exception is propagating
  outdata,        \* the device's output block of the current/last invocation
  cb_outcome,     \* how the last invocation ended: returned, or raised to the caller
  cb_path,        \* the branch the current/last invocation took
  cb_gen,         \* this mixing pass: channel indices whose generate() returned
  cb_skip,        \* this mixing pass: channel indices skipped as muted
  cb_fault,       \* this mixing pass: channel index whose generate() raised, or -1
  ctl_pc,         \* control thread: position inside set_synth
  ss_ch,          \* set_synth argument channel_idx
  ss_voice,       \* set_synth argument synth_instance
  gm_ret,         \* what the last toggle_global_mute call returned
  stream,         \* self.stream: None, or the state of the stream object it names
  lc_pc,          \* control thread: position inside start / stop
  lc_res,         \* how the last start / stop call ended
  lc_raised,      \* an exception left start / stop towards the caller
  osc,            \* an Oscillator: phase, waveform, phase increment per frame
  lfo_phase,      \* an LFO: phase
  chip,           \* a ChipSynth: the phases of osc1 and osc2
  blk,            \* the last block request: operation, n, raised, what it returned
  env_state,      \* Envelope.state
  env_level,      \* Envelope.level
  adsr,           \* Envelope.attack / decay / sustain / release
  env_pc,         \* audio thread: inside Envelope.generate or not
  env_left,       \* Envelope.generate: iterations still to run
  env_out,        \* Envelope.generate: the samples written to out so far
  env_run,        \* samples generated since trigger() on a fresh envelope; -2: fresh,
                  \* never triggered; -1: not such a run
  cutoff,         \* MoogFilter.cutoff, in Hz
  resonance,      \* MoogFilter.resonance, in hundredths
  moog_params,    \* MoogSynth.params
  moog_lfo,       \* MoogSynth.lfo.phase
  moog_pc,        \* audio thread: inside MoogSynth.generate's modulation or not
  base_cutoff,    \* MoogSynth.generate: the local base_cutoff
  lfo_vals,       \* MoogSynth.generate: the LFO values the loop has still to apply
  filter_set,     \* set_param("filter", ...) has been called on the MoogSynth
  mod_trace,      \* MoogSynth.generate: the cutoffs the loop has set, frame by frame
  proc_cutoff,    \* the cutoff MoogFilter.process read for the block; 0: not run
  moog_tune,      \* MoogSynth: osc1.freq, osc2.freq, lfo.rate
  sel,            \* the voice variant whose set_param is exercised
  chip_tune,      \* ChipSynth: osc1.freq, osc2.freq, and the oscillators' phases
  chip_params,    \* ChipSynth.params
  ex_tune,        \* ExoticSynth: carrier.freq, modulator.freq, and the phases
  ex_params,      \* ExoticSynth.params
  re_tune,        \* RetroSynth: osc1.freq, osc2.freq, and the phases
  re_params,      \* RetroSynth.params
  wavetable,      \* CustomDrawSynth.wavetable
  sw_pc,          \* control thread: position inside set_wavetable
  cd_tune,        \* CustomDrawSynth: freq, phase (a table index)
  cd_params,      \* CustomDrawSynth.params
  cd_pc,          \* audio thread: inside CustomDrawSynth.generate's read loop or not
  cd_len,         \* CustomDrawSynth.generate: the local table_len
  cd_left,        \* CustomDrawSynth.generate: iterations still to run
  cd_seen,        \* CustomDrawSynth.generate: the tables this call has read from
  cd_raised,      \* CustomDrawSynth.generate: an index was outside the table read
  clock,          \* time.time() at the latest MatchEngine.check call
  candidates,     \* MatchEngine.candidates: name -> start time, NoCand when absent
  active_matches, \* MatchEngine.active_matches
  last_super_match_time,  \* MatchEngine.last_super_match_time
  near_since      \* per match: the time of the first call of the unbroken run of
                  \* check calls that found its condition true, NoCand when the
                  \* latest call found it false

engine == <<active_synths, mutes, vols, global_mute, lock, viz_buffer>>
voice_state == <<phase, params, sp_log>>
pass == <<cb_gen, cb_skip, cb_fault>>
audio == <<cb_pc, cb_i, mixed, exc, outdata, cb_outcome, cb_path, pass>>
control == <<ctl_pc, ss_ch, ss_voice>>
\* the stream life cycle (start / stop)
driver == <<stream, lc_pc, lc_res, lc_raised>>
\* block generators on their own: an oscillator, an LFO, a two-oscillator voice
generators == <<osc, lfo_phase, chip, blk>>
\* an Envelope and the generate call running on it
envelope == <<env_state, env_level, adsr, env_pc, env_left, env_out, env_run>>
\* a MoogSynth: its filter, parameters, LFO and the generate call running on it
moog == <<cutoff, resonance, moog_params, moog_lfo, moog_pc, base_cutoff, lfo_vals,
          filter_set, mod_trace, proc_cutoff, moog_tune>>
\* the voices' set_param: oscillator tuning and parameter maps
tuning == <<sel, chip_tune, chip_params, ex_tune, ex_params, re_tune, re_params>>
\* a CustomDrawSynth: its wavetable, set_wavetable and the generate call on it
draw == <<wavetable, sw_pc, cd_tune, cd_params, cd_pc, cd_len, cd_left, cd_seen, cd_raised>>
\* state that the engine's mixing and slate operations never touch
\* a MatchEngine and the history of its check calls
matcher == <<clock, candidates, active_matches, last_super_match_time, near_since>>
detached == <<driver, generators, envelope, moog, tuning, draw, matcher>>
\* the engine with its slate, threads and mute controls
mixer == <<engine, voice_state, audio, control, gm_ret>>
beside_driver == <<generators, envelope, moog, tuning, draw, matcher>>
beside_generators == <<driver, envelope, moog, tuning, draw, matcher>>
beside_envelope == <<driver, generators, moog, tuning, draw, matcher>>
beside_moog == <<driver, generators, envelope, tuning, draw, matcher>>
beside_tuning == <<driver, generators, envelope, moog, draw, matcher>>
beside_draw == <<driver, generators, envelope, moog, tuning, matcher>>
beside_matcher == <<driver, generators, envelope, moog, tuning, draw>>
vars == <<mixer, detached>>

(* ------------------------------ buffers -------------------------------- *)

\* np.zeros((frames, 2))
Zeros(n) == [k \in 1..n |-> <<0, 0>>]
\* np.zeros(n)
ZerosMono(n) == [k \in 1..n |-> 0]

Min(a, b) == IF a < b THEN a ELSE b
Max(a, b) == IF a > b THEN a ELSE b

\* mutant: only the upper limit is enforced
ClipAbove(x) == IF x > One THEN One ELSE x

\* np.clip(x, -1.0, 1.0)
Clip(x) == IF x > One THEN One ELSE IF x < -One THEN -One ELSE x

\* x * v for a fixed-point factor v
Times(x, v) == (x * v) \div One

\* mixed += audio_chunk * vol
Accumulate(mix, chunk, vol) ==
  [k \in DOMAIN mix |-> <<mix[k][1] + Times(chunk[k][1], vol),
                          mix[k][2] + Times(chunk[k][2], vol)>>]

\* mixed *= self.master_vol; np.clip(mixed, -1.0, 1.0, out=mixed)
MasterAndClip(mix) ==
  [k \in DOMAIN mix |-> <<Clip(Times(mix[k][1], MasterVol)),
                          Clip(Times(mix[k][2], MasterVol))>>]

\* (mixed[:, 0] + mixed[:, 1]) / 2.0
MonoSum(mix) == [k \in DOMAIN mix |-> (mix[k][1] + mix[k][2]) \div 2]

(* ------------------------------- voices -------------------------------- *)

\* a square oscillator, sign(sin(phase)): zero at phase 0 and pi, positive in
\* the first half of the cycle, negative in the second
Wave(p) == LET q == p % Period IN
  IF q = 0 \/ 2 * q = Period THEN 0
  ELSE IF 2 * q < Period THEN One ELSE -One

\* whether synth_inst.generate(frames) raises: the placeholder None has no
\* generate attribute, and the bad instance raises inside generate
Raises(synth) == synth = None \/ synth \notin GoodVoices

\* Synth.generate: n dual-mono frames, scaled by the voice's gain
Generate(p, n) ==
  [k \in 1..n |-> <<Times(Wave(p + k - 1), Gain), Times(Wave(p + k - 1), Gain)>>]

\* Oscillator.next: the phase after n frames
NextPhase(p, n) == (p + n) % Period

(* ------------------------------ the lock ------------------------------- *)

\* mutant: the acquire succeeds whoever holds the lock
TryAcquireIgnoresHolder == TRUE

\* self.lock.acquire(blocking=False): succeeds iff nobody holds the lock
TryAcquire == lock = "free"

\* mutant: no handler matches the exception
CatchesNothing == FALSE

\* except Exception: the handler catches whatever generate() raised
Catches == TRUE

(* ----------------------- the audio thread: callback -------------------- *)

\* mutant: a channel beyond the four strips shares the flag of strip i mod 4
SlotMutedWrapped(i) == mutes[i % NumStrips]

\* mutes[i] as the mixing pass reads it: only the first four channels have a flag
SlotMuted(i) == i < NumStrips /\ mutes[i]

\* vol = self.vols[i] if i < 4 else 1.0
ChannelVol(i) == IF i < NumStrips THEN vols[i] ELSE One

\* mutant: the global-mute branch returns without clearing the viz buffer
CbEnterKeepsViz ==
  /\ cb_pc = "idle"
  /\ outdata' = Zeros(Frames)
  /\ IF global_mute
       THEN /\ cb_pc' = "idle"
            /\ cb_outcome' = "returned"
            /\ cb_path' = "muted"
       ELSE /\ cb_pc' = "try_lock"
            /\ cb_outcome' = "running"
            /\ cb_path' = "entered"
  /\ UNCHANGED <<engine, voice_state, cb_i, mixed, exc, pass, control>>
  /\ UNCHANGED <<gm_ret, detached>>

\* callback, lines 30-41: clear the block, check global mute. Lines 32-36 touch
\* only the callback's own arguments, so the entry and the read of
\* self.global_mute are one step
CbEnter ==
  /\ cb_pc = "idle"
  /\ outdata' = Zeros(Frames)
  /\ IF global_mute
       THEN /\ viz_buffer' = ZerosMono(Min(Frames, 512))
            /\ cb_pc' = "idle"
            /\ cb_outcome' = "returned"
            /\ cb_path' = "muted"
       ELSE /\ cb_pc' = "try_lock"
            /\ cb_outcome' = "running"
            /\ cb_path' = "entered"
            /\ UNCHANGED viz_buffer
  /\ UNCHANGED <<active_synths, mutes, vols, global_mute, lock, voice_state,
                 cb_i, mixed, exc, pass, control>>
  /\ UNCHANGED <<gm_ret, detached>>

\* mutant: the audio thread acquires the lock blockingly
CbTryLockBlocking ==
  /\ cb_pc = "try_lock"
  /\ lock = "free"
  /\ lock' = "audio"
  /\ cb_path' = "locked"
  /\ cb_pc' = "mix"
  /\ UNCHANGED <<active_synths, mutes, vols, global_mute, viz_buffer, voice_state,
                 cb_i, mixed, exc, outdata, cb_outcome, pass, control>>
  /\ UNCHANGED <<gm_ret, detached>>

\* callback, line 47 and lines 73-75: the non-blocking acquire
CbTryLock ==
  /\ cb_pc = "try_lock"
  /\ IF TryAcquire
       THEN /\ lock' = "audio"
            /\ cb_path' = "locked"
            /\ cb_pc' = "mix"
            /\ UNCHANGED cb_outcome
       ELSE /\ cb_path' = "busy"
            /\ cb_pc' = "idle"
            /\ cb_outcome' = "returned"
            /\ UNCHANGED lock
  /\ UNCHANGED <<active_synths, mutes, vols, global_mute, viz_buffer, voice_state,
                 cb_i, mixed, exc, outdata, pass, control>>
  /\ UNCHANGED <<gm_ret, detached>>

\* mutant: generate() is guarded per channel, and the loop continues after a fault
CbMixCatchPerChannel ==
  /\ cb_pc = "mix"
  /\ cb_i < Len(active_synths)
  /\ LET synth == active_synths[cb_i + 1] IN
       IF SlotMuted(cb_i)
         THEN /\ cb_i' = cb_i + 1
              /\ cb_skip' = cb_skip \cup {cb_i}
              /\ UNCHANGED <<mixed, cb_path, cb_gen, cb_fault, phase>>
         ELSE IF Raises(synth)
           THEN /\ cb_fault' = cb_i
                /\ cb_path' = "fault"
                /\ cb_i' = cb_i + 1
                /\ UNCHANGED <<mixed, cb_gen, cb_skip, phase>>
           ELSE /\ mixed' = Accumulate(mixed, Generate(phase[synth], Frames),
                                       ChannelVol(cb_i))
                /\ phase' = [phase EXCEPT ![synth] = NextPhase(@, Frames)]
                /\ cb_gen' = cb_gen \cup {cb_i}
                /\ cb_i' = cb_i + 1
                /\ UNCHANGED <<cb_path, cb_skip, cb_fault>>
  /\ UNCHANGED <<engine, params, sp_log, exc, cb_pc, outdata, cb_outcome, control>>
  /\ UNCHANGED <<gm_ret, detached>>

\* callback, lines 51-59: one iteration of the mixing loop
CbMix ==
  /\ cb_pc = "mix"
  /\ cb_i < Len(active_synths)
  /\ LET synth == active_synths[cb_i + 1] IN
       IF SlotMuted(cb_i)
         THEN /\ cb_i' = cb_i + 1
              /\ cb_skip' = cb_skip \cup {cb_i}
              /\ UNCHANGED <<mixed, exc, cb_pc, cb_path, cb_gen, cb_fault, phase>>
         ELSE IF Raises(synth)
           THEN /\ exc' = TRUE
                /\ cb_fault' = cb_i
                /\ cb_pc' = "except"
                /\ cb_path' = "fault"
                /\ UNCHANGED <<mixed, cb_i, cb_gen, cb_skip, phase>>
           ELSE /\ mixed' = Accumulate(mixed, Generate(phase[synth], Frames),
                                       ChannelVol(cb_i))
                /\ phase' = [phase EXCEPT ![synth] = NextPhase(@, Frames)]
                /\ cb_gen' = cb_gen \cup {cb_i}
                /\ cb_i' = cb_i + 1
                /\ UNCHANGED <<exc, cb_pc, cb_path, cb_skip, cb_fault>>
  /\ UNCHANGED <<engine, params, sp_log, outdata, cb_outcome, control>>
  /\ UNCHANGED <<gm_ret, detached>>

\* callback, lines 61-68: master volume, clip, write the block and the viz buffer
CbPost ==
  /\ cb_pc = "mix"
  /\ cb_i >= Len(active_synths)
  /\ outdata' = MasterAndClip(mixed)
  /\ viz_buffer' = MonoSum(MasterAndClip(mixed))
  /\ cb_pc' = "finally"
  /\ cb_path' = "mixed"
  /\ UNCHANGED <<active_synths, mutes, vols, global_mute, lock, voice_state,
                 cb_i, mixed, exc, cb_outcome, pass, control>>
  /\ UNCHANGED <<gm_ret, detached>>

\* callback, lines 69-70: the exception handler
CbExcept ==
  /\ cb_pc = "except"
  /\ exc' = IF Catches THEN FALSE ELSE exc
  /\ cb_pc' = "finally"
  /\ UNCHANGED <<engine, voice_state, cb_i, mixed, outdata, cb_outcome, cb_path,
                 pass, control>>
  /\ UNCHANGED <<gm_ret, detached>>

\* mutant: the release sits at the end of the try body, so a fault skips it
CbFinallyLeaksOnFault ==
  /\ cb_pc = "finally"
  /\ lock' = IF cb_path = "fault" THEN lock ELSE "free"
  /\ cb_outcome' = IF exc THEN "raised" ELSE "returned"
  /\ exc' = FALSE
  /\ cb_pc' = "idle"
  /\ cb_i' = 0
  /\ mixed' = Zeros(Frames)
  /\ cb_gen' = {}
  /\ cb_skip' = {}
  /\ cb_fault' = -1
  /\ UNCHANGED <<active_synths, mutes, vols, global_mute, viz_buffer, voice_state,
                 outdata, cb_path, control>>
  /\ UNCHANGED <<gm_ret, detached>>

\* callback, lines 71-72: release the lock and leave the callback; the locals
\* of the mixing pass die with the frame
CbFinally ==
  /\ cb_pc = "finally"
  /\ lock' = "free"
  /\ cb_outcome' = IF exc THEN "raised" ELSE "returned"
  /\ exc' = FALSE
  /\ cb_pc' = "idle"
  /\ cb_i' = 0
  /\ mixed' = Zeros(Frames)
  /\ cb_gen' = {}
  /\ cb_skip' = {}
  /\ cb_fault' = -1
  /\ UNCHANGED <<active_synths, mutes, vols, global_mute, viz_buffer, voice_state,
                 outdata, cb_path, control>>
  /\ UNCHANGED <<gm_ret, detached>>

(* --------------------- the control thread: operations ------------------ *)

RECURSIVE Grow(_, _)
\* while len(self.active_synths) <= channel_idx: self.active_synths.append(None)
Grow(slate, ch) == IF Len(slate) <= ch THEN Grow(Append(slate, None), ch) ELSE slate

\* set_synth is called: the thread reaches `with self.lock`
SetSynthCall(ch, v) ==
  /\ ctl_pc = "idle"
  /\ ctl_pc' = "ss_wait"
  /\ ss_ch' = ch
  /\ ss_voice' = v
  /\ UNCHANGED <<engine, voice_state, audio>>
  /\ UNCHANGED <<gm_ret, detached>>

\* set_synth, line 96: the blocking acquire
SetSynthAcquire ==
  /\ ctl_pc = "ss_wait"
  /\ lock = "free"
  /\ lock' = "control"
  /\ ctl_pc' = "ss_cs"
  /\ UNCHANGED <<active_synths, mutes, vols, global_mute, viz_buffer, voice_state,
                 audio, ss_ch, ss_voice>>
  /\ UNCHANGED <<gm_ret, detached>>

\* mutant: a slot that already holds a voice keeps it
SetSynthBodyKeepsOld ==
  /\ ctl_pc = "ss_cs"
  /\ active_synths' =
       IF ss_ch < Len(active_synths) /\ active_synths[ss_ch + 1] # None
         THEN active_synths
         ELSE [Grow(active_synths, ss_ch) EXCEPT ![ss_ch + 1] = ss_voice]
  /\ lock' = "free"
  /\ ctl_pc' = "idle"
  /\ ss_ch' = 0
  /\ ss_voice' = None
  /\ UNCHANGED <<mutes, vols, global_mute, viz_buffer, voice_state, audio>>
  /\ UNCHANGED <<gm_ret, detached>>

\* set_synth, lines 97-100: grow the slate, assign the slot, leave the with block
SetSynthBody ==
  /\ ctl_pc = "ss_cs"
  /\ active_synths' = [Grow(active_synths, ss_ch) EXCEPT ![ss_ch + 1] = ss_voice]
  /\ lock' = "free"
  /\ ctl_pc' = "idle"
  /\ ss_ch' = 0
  /\ ss_voice' = None
  /\ UNCHANGED <<mutes, vols, global_mute, viz_buffer, voice_state, audio>>
  /\ UNCHANGED <<gm_ret, detached>>

\* mutant: the range check is off by one
SlotInRangeOffByOne(ch) == ch <= Len(active_synths)

\* set_param, line 105: the range check before the slot is read
SlotInRange(ch) == ch < Len(active_synths)

\* set_param, lines 102-108; sp_log records the call: its arguments, the voice
\* set_param invocations it made, and whether it raised (reading a slot that
\* does not exist is an IndexError)
SetParam(ch, name, value) ==
  /\ ctl_pc = "idle"
  /\ IF SlotInRange(ch)
       THEN IF ch + 1 \notin DOMAIN active_synths
         THEN /\ sp_log' = [args |-> <<ch, name, value>>, calls |-> <<>>, raised |-> TRUE]
              /\ UNCHANGED params
         ELSE LET s == active_synths[ch + 1] IN
           IF s # None
             THEN /\ params' = [params EXCEPT ![s][name] = value]
                  /\ sp_log' = [args |-> <<ch, name, value>>,
                                calls |-> << <<s, name, value>> >>, raised |-> FALSE]
             ELSE /\ sp_log' = [args |-> <<ch, name, value>>, calls |-> <<>>,
                                raised |-> FALSE]
                  /\ UNCHANGED params
       ELSE /\ sp_log' = [args |-> <<ch, name, value>>, calls |-> <<>>, raised |-> FALSE]
            /\ UNCHANGED params
  /\ UNCHANGED <<engine, phase, audio, control>>
  /\ UNCHANGED <<gm_ret, detached>>

\* mutant: the flag of the neighbouring strip is negated
ToggleMuteNeighbour(ch) ==
  /\ ctl_pc = "idle"
  /\ mutes' = IF ch < NumStrips THEN [mutes EXCEPT ![(ch + 1) % NumStrips] = ~@] ELSE mutes
  /\ UNCHANGED <<active_synths, vols, global_mute, lock, viz_buffer, voice_state,
                 audio, control>>
  /\ UNCHANGED <<gm_ret, detached>>

\* toggle_mute, lines 110-115
ToggleMute(ch) ==
  /\ ctl_pc = "idle"
  /\ mutes' = IF ch < NumStrips THEN [mutes EXCEPT ![ch] = ~@] ELSE mutes
  /\ UNCHANGED <<active_synths, vols, global_mute, lock, viz_buffer, voice_state,
                 audio, control>>
  /\ UNCHANGED <<gm_ret, detached>>

\* toggle_global_mute, lines 117-122
ToggleGlobalMute ==
  /\ ctl_pc = "idle"
  /\ global_mute' = ~global_mute
  /\ gm_ret' = global_mute'
  /\ UNCHANGED <<active_synths, mutes, vols, lock, viz_buffer, voice_state,
                 audio, control>>
  /\ UNCHANGED detached

(* ------------------ the control thread: start and stop ----------------- *)

\* mutant: start() has no try / except around the stream calls
StartGuardedNot == FALSE

\* start, lines 78 and 86-87: the stream calls sit inside try / except Exception
StartGuarded == TRUE

\* start() is called on an engine whose stream is not running (the life cycle
\* stopped -> start() -> running -> stop() -> stopped; main.py starts once)
StartCall ==
  /\ lc_pc = "idle"
  /\ ctl_pc = "idle"
  /\ stream # "running"
  /\ lc_pc' = "opening"
  /\ UNCHANGED <<stream, lc_res, lc_raised>>
  /\ UNCHANGED <<mixer, beside_driver>>

\* start, lines 79-84: sd.OutputStream(...) either returns a stream, which is
\* bound to self.stream, or raises, which leaves self.stream as it was
StartOpen ==
  /\ lc_pc = "opening"
  /\ \E opened \in BOOLEAN :
       IF opened
         THEN /\ stream' = "open"
              /\ lc_pc' = "starting"
              /\ UNCHANGED <<lc_res, lc_raised>>
         ELSE /\ lc_pc' = "idle"
              /\ lc_res' = "start_failed"
              /\ lc_raised' = (lc_raised \/ ~StartGuarded)
              /\ UNCHANGED stream
  /\ UNCHANGED <<mixer, beside_driver>>

\* start, line 85: self.stream.start() either starts the stream or raises,
\* which leaves the opened stream bound to self.stream, not running
StartRun ==
  /\ lc_pc = "starting"
  /\ \E started \in BOOLEAN :
       IF started
         THEN /\ stream' = "running"
              /\ lc_res' = "started"
              /\ UNCHANGED lc_raised
         ELSE /\ lc_res' = "start_failed"
              /\ lc_raised' = (lc_raised \/ ~StartGuarded)
              /\ UNCHANGED stream
  /\ lc_pc' = "idle"
  /\ UNCHANGED <<mixer, beside_driver>>

\* stop, line 91: `if self.stream:`
StopCall ==
  /\ lc_pc = "idle"
  /\ ctl_pc = "idle"
  /\ IF stream # None
       THEN /\ lc_pc' = "stopping"
            /\ UNCHANGED lc_res
       ELSE /\ lc_res' = "stopped"
            /\ UNCHANGED lc_pc
  /\ UNCHANGED <<stream, lc_raised>>
  /\ UNCHANGED <<mixer, beside_driver>>

\* mutant: stop() goes straight to close()
StopStreamSkipped ==
  /\ lc_pc = "stopping"
  /\ lc_pc' = "closing"
  /\ UNCHANGED <<stream, lc_res, lc_raised>>
  /\ UNCHANGED <<mixer, beside_driver>>

\* stop, line 92: self.stream.stop() returns once the stream no longer runs: a
\* callback in progress finishes first. On a stream that does not run the call
\* changes nothing (sounddevice ignores the error)
StopStream ==
  /\ lc_pc = "stopping"
  /\ stream = "running" => cb_pc = "idle"
  /\ stream' = IF stream = "running" THEN "stopped" ELSE stream
  /\ lc_pc' = "closing"
  /\ UNCHANGED <<lc_res, lc_raised>>
  /\ UNCHANGED <<mixer, beside_driver>>

\* stop, line 93: self.stream.close() releases the stream's resources
StopClose ==
  /\ lc_pc = "closing"
  /\ stream' = "closed"
  /\ lc_pc' = "idle"
  /\ lc_res' = "stopped"
  /\ UNCHANGED lc_raised
  /\ UNCHANGED <<mixer, beside_driver>>

\* the device invokes the callback of a running stream
StreamCallback == stream = "running" /\ CbEnter

(* ------------------------ parameters and tuning ------------------------ *)

\* self.params[name] = value on a dict: the key is added when it is new
Store(map, name, value) ==
  [n \in DOMAIN map \cup {name} |-> IF n = name THEN value ELSE map[n]]

\* thousandths: the unit of frequencies (mHz) and of frequency ratios
Milli == One * One * One

\* a frequency m * 2^(oct + frac/One) mHz, kept as mantissa and exponent
Hz(h) == [m |-> h * Milli, oct |-> 0, frac |-> 0]

\* base * (2.0 ** (value * octaves)), for e = value * octaves in tenths
Tone(base, e) == [m |-> base * Milli, oct |-> e \div One, frac |-> e % One]

\* freq * k, for a ratio k in thousandths
Scaled(f, k) == [f EXCEPT !.m = (f.m \div Milli) * k + ((f.m % Milli) * k) \div Milli]

\* freq / 2.0
Halved(f) == [f EXCEPT !.oct = f.oct - 1]

\* the voices' pitch maps: 55.0 * (2.0 ** (value * 4.0))
PitchBase == 55
PitchOctaves == 4

(* --------------------------- block generators -------------------------- *)

\* phase steps per oscillator cycle: phases are multiples of a quarter turn
Cycle == 4
\* the waveform tags Oscillator.next knows, and one it does not
Waveforms == {"sine", "square", "saw", "tri", "off"}
\* the literal 0.5 of the voices' mixes
Half == One \div 2

\* np.sin at a multiple of a quarter turn
Sin(q) ==
  LET r == q % Cycle IN
    IF r = Cycle \div 4 THEN One ELSE IF r = 3 * (Cycle \div 4) THEN -One ELSE 0

\* np.sign
Sign(x) == IF x > 0 THEN One ELSE IF x < 0 THEN -One ELSE 0

\* Oscillator.next, lines 41-51: the sample of a waveform at a phase
WaveAt(w, q) ==
  CASE w = "sine" -> Sin(q)
    [] w = "square" -> Sign(Sin(q))
    [] w = "saw" -> LET r == q % Cycle IN
                      IF 2 * r < Cycle THEN (2 * r * One) \div Cycle
                                       ELSE (2 * (r - Cycle) * One) \div Cycle
    [] w = "tri" -> Sin(q)
    [] OTHER -> 0

\* self.phase + np.arange(num_frames) * phase_increment
PhasesOf(p, inc, n) == [k \in 1..n |-> p + (k - 1) * inc]

\* Oscillator.next, lines 31-51: phases[-1] on an empty array is an IndexError,
\* raised before self.phase is assigned
OscNext(o, n) ==
  LET phases == PhasesOf(o.phase, o.inc, n) IN
    IF Len(phases) = 0
      THEN [raised |-> TRUE, out |-> <<>>, phase |-> o.phase]
      ELSE [raised |-> FALSE,
            out |-> [k \in 1..n |-> WaveAt(o.wave, phases[k])],
            phase |-> (phases[Len(phases)] + o.inc) % Cycle]

\* LFO.generate, lines 14-28, waveform 'sine': values in 0..1
LfoGenerate(p, n) ==
  LET phases == PhasesOf(p, 1, n) IN
    IF Len(phases) = 0
      THEN [raised |-> TRUE, out |-> <<>>, phase |-> p]
      ELSE [raised |-> FALSE,
            out |-> [k \in 1..n |-> (Sin(phases[k]) + One) \div 2],
            phase |-> (phases[Len(phases)] + 1) % Cycle]

\* ChipSynth.generate, lines 37-54: osc1 (square, 110 Hz) and osc2 (saw, 220 Hz);
\* an exception in osc1.next leaves generate before osc2 is touched
ChipGenerate(c, n) ==
  LET r1 == OscNext([phase |-> c[1], wave |-> "square", inc |-> 1], n)
      r2 == OscNext([phase |-> c[2], wave |-> "saw", inc |-> 2], n)
  IN
    IF r1.raised
      THEN [raised |-> TRUE, out |-> <<>>, phases |-> c]
      ELSE IF r2.raised
        THEN [raised |-> TRUE, out |-> <<>>, phases |-> <<r1.phase, c[2]>>]
        ELSE [raised |-> FALSE,
              out |-> [k \in 1..n |->
                         LET m == Times(Clip(Times(r1.out[k] + r2.out[k], Half)), Gain)
                         IN <<m, m>>],
              phases |-> <<r1.phase, r2.phase>>]

\* a caller asks the oscillator for a block of n samples
OscNextCall(n) ==
  LET r == OscNext(osc, n) IN
    /\ osc' = [osc EXCEPT !.phase = r.phase]
    /\ blk' = [op |-> "Oscillator.next", n |-> n, raised |-> r.raised, out |-> r.out]
    /\ UNCHANGED <<lfo_phase, chip>>
    /\ UNCHANGED <<mixer, beside_generators>>

\* a caller asks the LFO for a block of n values
LfoGenerateCall(n) ==
  LET r == LfoGenerate(lfo_phase, n) IN
    /\ lfo_phase' = r.phase
    /\ blk' = [op |-> "LFO.generate", n |-> n, raised |-> r.raised, out |-> r.out]
    /\ UNCHANGED <<osc, chip>>
    /\ UNCHANGED <<mixer, beside_generators>>

\* a caller asks the ChipSynth voice for a block of n stereo frames
ChipGenerateCall(n) ==
  LET r == ChipGenerate(chip, n) IN
    /\ chip' = r.phases
    /\ blk' = [op |-> "ChipSynth.generate", n |-> n, raised |-> r.raised, out |-> r.out]
    /\ UNCHANGED <<osc, lfo_phase>>
    /\ UNCHANGED <<mixer, beside_generators>>

(* ------------------------------ envelope ------------------------------- *)

\* the level 1.0 of an Envelope, in level units
EnvOne == 12
\* the floor 0.001 s of the ADSR times, in time units (half milliseconds)
MinTime == 2
\* dt = 1.0 / self.sr, for a sample rate of 1000 Hz
Dt == MinTime
\* ADSR times handed to the envelope: one below the floor, one of three samples
EnvTimes == {MinTime \div 2, 3 * MinTime}
\* sustain levels handed to the envelope: 0.0, 0.5, 1.0
Sustains == {0, EnvOne \div 2, EnvOne}
AdsrParams == [attack : EnvTimes, decay : EnvTimes, sustain : Sustains, release : EnvTimes]
\* the longest attack, in samples, and one more
RunCap == (3 * MinTime) \div Dt + 1

\* mutant: the attack rises half as fast
AttackStepHalved(a) == (EnvOne * Dt) \div (2 * Max(a.attack, MinTime))

\* generate, line 85: dt / max(self.attack, 0.001)
AttackStep(a) == (EnvOne * Dt) \div Max(a.attack, MinTime)

\* mutant: the attack does not stop at 1.0
AttackBranchUnclamped(lv, a) ==
  LET l == lv + AttackStep(a) IN
    IF l >= EnvOne THEN [level |-> l, state |-> "decay"]
                   ELSE [level |-> l, state |-> "attack"]

\* generate, lines 84-88
AttackBranch(lv, a) ==
  LET l == lv + AttackStep(a) IN
    IF l >= EnvOne THEN [level |-> EnvOne, state |-> "decay"]
                   ELSE [level |-> l, state |-> "attack"]

\* generate, lines 90-94; `seen` is self.sustain as read by lines 92-93
DecayBranch(lv, a, seen) ==
  LET l == lv - (Dt * (EnvOne - a.sustain)) \div Max(a.decay, MinTime) IN
    IF l <= seen THEN [level |-> seen, state |-> "sustain"]
                 ELSE [level |-> l, state |-> "decay"]

\* generate, lines 96-97
SustainBranch(lv, a) == [level |-> a.sustain, state |-> "sustain"]

\* mutant: a finished release starts the next attack
ReleaseBranchRestarts(lv, a) ==
  LET l == lv - (Dt * a.sustain) \div Max(a.release, MinTime) IN
    IF l <= 0 THEN [level |-> 0, state |-> "attack"]
              ELSE [level |-> l, state |-> "release"]

\* generate, lines 99-103
ReleaseBranch(lv, a) ==
  LET l == lv - (Dt * a.sustain) \div Max(a.release, MinTime) IN
    IF l <= 0 THEN [level |-> 0, state |-> "idle"]
              ELSE [level |-> l, state |-> "release"]

\* trigger, lines 67-70; a run is counted from the trigger of a fresh envelope
EnvTrigger ==
  /\ env_state' = "attack"
  /\ env_run' = IF env_run = -2 THEN 0 ELSE -1
  /\ UNCHANGED <<env_level, adsr, env_pc, env_left, env_out>>
  /\ UNCHANGED <<mixer, beside_envelope>>

\* release_note, lines 72-75
EnvReleaseNote ==
  /\ env_state' = "release"
  /\ env_run' = -1
  /\ UNCHANGED <<env_level, adsr, env_pc, env_left, env_out>>
  /\ UNCHANGED <<mixer, beside_envelope>>

\* CustomDrawSynth.set_adsr, lines 37-43: the four parameters are replaced
SetAdsr(d) ==
  /\ adsr' = d
  /\ env_run' = IF env_run = -2 THEN -2 ELSE -1
  /\ UNCHANGED <<env_state, env_level, env_pc, env_left, env_out>>
  /\ UNCHANGED <<mixer, beside_envelope>>

\* generate, lines 77-79: the call, out = np.zeros(num_frames)
EnvGenerateCall(n) ==
  /\ env_pc = "idle"
  /\ env_pc' = "gen"
  /\ env_left' = n
  /\ env_out' = <<>>
  /\ UNCHANGED <<env_state, env_level, adsr, env_run>>
  /\ UNCHANGED <<mixer, beside_envelope>>

\* generate, lines 81-105: one iteration of the loop. In the decay branch
\* self.sustain is read again after the level is lowered: a set_adsr write
\* landing between the reads shows as seen # adsr.sustain
EnvSample ==
  /\ env_pc = "gen"
  /\ env_left > 0
  /\ \E seen \in Sustains :
       /\ seen # adsr.sustain => env_state = "decay"
       /\ LET r == CASE env_state = "attack" -> AttackBranch(env_level, adsr)
                     [] env_state = "decay" -> DecayBranch(env_level, adsr, seen)
                     [] env_state = "sustain" -> SustainBranch(env_level, adsr)
                     [] env_state = "release" -> ReleaseBranch(env_level, adsr)
                     [] OTHER -> [level |-> env_level, state |-> env_state]
          IN /\ env_level' = r.level
             /\ env_state' = r.state
             /\ env_out' = Append(env_out, r.level)
       /\ adsr' = [adsr EXCEPT !.sustain = seen]
       /\ env_run' = IF seen # adsr.sustain /\ env_run # -2 THEN -1
                     ELSE IF env_run >= 0
                       THEN (IF env_run < RunCap THEN env_run + 1 ELSE -1)
                       ELSE env_run
  /\ env_left' = env_left - 1
  /\ UNCHANGED env_pc
  /\ UNCHANGED <<mixer, beside_envelope>>

\* generate, line 107: return out
EnvGenerateReturn ==
  /\ env_pc = "gen"
  /\ env_left = 0
  /\ env_pc' = "idle"
  /\ UNCHANGED <<env_state, env_level, adsr, env_left, env_out, env_run>>
  /\ UNCHANGED <<mixer, beside_envelope>>

(* ----------------------------- Moog voice ------------------------------ *)

\* MoogFilter.set_cutoff: the floor 20 Hz
CutoffMin == 20
\* MoogFilter.set_cutoff: self.sr * 0.49 at 44100 Hz
CutoffMax == 21609
\* MoogFilter.set_resonance: the ceiling 0.95, in hundredths
ResMax == 95
\* MoogSynth.__init__: set_cutoff(800), set_resonance(0.6)
InitCutoff == 800
InitRes == 60
\* MoogSynth.set_param: cutoff = 100 + value * 4900, resonance = value * 0.9
FilterBase == 100
FilterSpan == 4900
ResScale == 9
\* MoogSynth.lfo_depth = 0.3, in tenths
LfoDepth == 3
\* 1.0 in hundredths
Percent == One * One

MoogParamNames == {"pitch", "filter", "resonance"}
\* values handed to set_param, in tenths: -10.0, -0.1, 0.0, 0.5, 1.0, 10.0
MoogValues == {-Percent, -1, 0, Half, One, Percent}

\* MoogSynth.__init__: Oscillator freq 110 and 55, LFO rate 1.5 (in hundredths)
MoogOsc1 == 110
MoogOsc2 == 55
MoogLfoRate == 150

\* mutant: the cutoff has a ceiling but no floor
SetCutoffNoFloor(freq) == Min(freq, CutoffMax)

\* MoogFilter.set_cutoff, lines 63-64: max(20, min(freq, self.sr * 0.49))
SetCutoff(freq) == Max(CutoffMin, Min(freq, CutoffMax))

\* MoogFilter.set_resonance, lines 66-67: max(0, min(res, 0.95))
SetResonance(res) == Max(0, Min(res, ResMax))

\* MoogSynth.generate, line 60: base_cutoff * (1.0 + (lfo_v - 0.5) * self.lfo_depth)
ModCutoff(base, lfo_v) == (base * (Percent + (lfo_v - Half) * LfoDepth)) \div Percent

\* mutant: the last branch of set_param is an else, taken by every other name
MoogSetParamElse(name, value) ==
  /\ moog_params' = Store(moog_params, name, value)
  /\ cutoff' = IF name = "filter"
                 THEN SetCutoff(FilterBase + (value * FilterSpan) \div One)
                 ELSE cutoff
  /\ resonance' = IF name = "resonance" THEN SetResonance(value * ResScale) ELSE resonance
  /\ filter_set' = (filter_set \/ name = "filter")
  /\ moog_tune' =
       IF name = "pitch"
         THEN [moog_tune EXCEPT !.osc1 = Tone(PitchBase, PitchOctaves * value),
                                !.osc2 = Halved(Tone(PitchBase, PitchOctaves * value))]
         ELSE IF name \notin {"filter", "resonance"}
           THEN [moog_tune EXCEPT !.lfo_rate = Max(1, One + value * Percent)]
           ELSE moog_tune
  /\ UNCHANGED <<moog_lfo, moog_pc, base_cutoff, lfo_vals, mod_trace, proc_cutoff>>
  /\ UNCHANGED <<mixer, beside_moog>>

\* MoogSynth.set_param, lines 27-44
MoogSetParam(name, value) ==
  /\ moog_params' = Store(moog_params, name, value)
  /\ moog_tune' =
       IF name = "pitch"
         THEN [moog_tune EXCEPT !.osc1 = Tone(PitchBase, PitchOctaves * value),
                                !.osc2 = Halved(Tone(PitchBase, PitchOctaves * value))]
         ELSE IF name = "lfo_rate"
           THEN [moog_tune EXCEPT !.lfo_rate = Max(1, One + value * Percent)]
           ELSE moog_tune
  /\ cutoff' = IF name = "filter"
                 THEN SetCutoff(FilterBase + (value * FilterSpan) \div One)
                 ELSE cutoff
  /\ resonance' = IF name = "resonance" THEN SetResonance(value * ResScale) ELSE resonance
  /\ filter_set' = (filter_set \/ name = "filter")
  /\ UNCHANGED <<moog_lfo, moog_pc, base_cutoff, lfo_vals, mod_trace, proc_cutoff>>
  /\ UNCHANGED <<mixer, beside_moog>>

\* MoogSynth.generate, lines 46-58: the LFO block is generated and the
\* filter's cutoff is read into base_cutoff
MoogGenerateCall(n) ==
  /\ moog_pc = "idle"
  /\ LET r == LfoGenerate(moog_lfo, n) IN
       /\ lfo_vals' = r.out
       /\ moog_lfo' = r.phase
  /\ base_cutoff' = cutoff
  /\ moog_pc' = "mod"
  /\ mod_trace' = <<>>
  /\ UNCHANGED <<cutoff, resonance, moog_params, filter_set, proc_cutoff,
                 moog_tune>>
  /\ UNCHANGED <<mixer, beside_moog>>

\* MoogSynth.generate, lines 59-61: one iteration of the modulation loop
MoogModulate ==
  /\ moog_pc = "mod"
  /\ lfo_vals # <<>>
  /\ cutoff' = SetCutoff(ModCutoff(base_cutoff, Head(lfo_vals)))
  /\ mod_trace' = Append(mod_trace, cutoff')
  /\ lfo_vals' = Tail(lfo_vals)
  /\ UNCHANGED <<resonance, moog_params, moog_lfo, moog_pc, base_cutoff, filter_set,
                 proc_cutoff,
                 moog_tune>>
  /\ UNCHANGED <<mixer, beside_moog>>

\* MoogSynth.generate, lines 63-64: the cutoff is set back to base_cutoff
MoogRestore ==
  /\ moog_pc = "mod"
  /\ lfo_vals = <<>>
  /\ cutoff' = SetCutoff(base_cutoff)
  /\ moog_pc' = "process"
  /\ UNCHANGED <<resonance, moog_params, moog_lfo, base_cutoff, lfo_vals, filter_set,
                 mod_trace, proc_cutoff,
                 moog_tune>>
  /\ UNCHANGED <<mixer, beside_moog>>

\* MoogSynth.generate, line 67, MoogFilter.process, lines 69-91: the filter
\* reads self.cutoff once (fc = self.cutoff / self.sr) and runs every frame of
\* the block with that coefficient; it writes neither cutoff nor resonance
MoogProcess ==
  /\ moog_pc = "process"
  /\ proc_cutoff' = cutoff
  /\ moog_pc' = "done"
  /\ UNCHANGED <<cutoff, resonance, moog_params, moog_lfo, base_cutoff, lfo_vals,
                 filter_set, mod_trace,
                 moog_tune>>
  /\ UNCHANGED <<mixer, beside_moog>>

\* MoogSynth.generate, lines 69-72: the block is returned; the locals die
MoogReturn ==
  /\ moog_pc = "done"
  /\ moog_pc' = "idle"
  /\ base_cutoff' = 0
  /\ mod_trace' = <<>>
  /\ proc_cutoff' = 0
  /\ UNCHANGED <<cutoff, resonance, moog_params, moog_lfo, lfo_vals, filter_set,
                 moog_tune>>
  /\ UNCHANGED <<mixer, beside_moog>>

(* -------------------------- voices: set_param -------------------------- *)

\* the constructors' oscillator frequencies, in Hz
ChipOsc1 == 110
ChipOsc2 == 220
ExCarrier == 440
ExModulator == 1200
RetroOsc == 110
\* ExoticSynth.set_param: 110.0 * (2.0 ** (value * 3.0))
ExPitchBase == 110
ExPitchOctaves == 3
\* ExoticSynth.set_param: ratio = 1.0 + value * 5.5, per tenth, in thousandths
MetalSpan == 550
\* ChipSynth.set_param: 1.0 + detune * 0.1, per tenth, in thousandths
ChipDetuneSpan == 10
\* RetroSynth.set_param: detune_amt = 0.005 + detune * 0.02, in thousandths
RetroDetuneBase == 5
RetroDetuneSpan == 2

\* a parameter name no voice interprets
UnknownNames == {"zz"}
ChipNames == {"pitch", "detune"} \cup UnknownNames
ExoticNames == {"pitch", "metal"} \cup UnknownNames
RetroNames == {"pitch", "detune"} \cup UnknownNames
MoogNames == MoogParamNames \cup {"lfo_rate"} \cup UnknownNames
\* parameter values 0.0, 0.5, 1.0
TuneValues == {0, Half, One}
TunedVoices == {"chip", "moog", "exotic", "retro", "draw"}

\* mutant: the last branch of set_param is an else, taken by every other name
ChipSetParamElse(name, value) ==
  /\ chip_params' = Store(chip_params, name, value)
  /\ chip_tune' =
       IF name = "pitch"
         THEN [chip_tune EXCEPT
                 !.osc1 = Tone(PitchBase, PitchOctaves * value),
                 !.osc2 = Scaled(Tone(PitchBase, PitchOctaves * value),
                                 Milli + chip_params'["detune"] * ChipDetuneSpan)]
         ELSE [chip_tune EXCEPT
                 !.osc2 = Scaled(chip_tune.osc1, Milli + value * ChipDetuneSpan)]
  /\ UNCHANGED <<sel, ex_tune, ex_params, re_tune, re_params>>
  /\ UNCHANGED <<mixer, beside_tuning>>

\* ChipSynth.set_param, lines 22-35
ChipSetParam(name, value) ==
  /\ chip_params' = Store(chip_params, name, value)
  /\ chip_tune' =
       IF name = "pitch"
         THEN [chip_tune EXCEPT
                 !.osc1 = Tone(PitchBase, PitchOctaves * value),
                 !.osc2 = Scaled(Tone(PitchBase, PitchOctaves * value),
                                 Milli + chip_params'["detune"] * ChipDetuneSpan)]
         ELSE IF name = "detune"
           THEN [chip_tune EXCEPT
                   !.osc2 = Scaled(chip_tune.osc1, Milli + value * ChipDetuneSpan)]
           ELSE chip_tune
  /\ UNCHANGED <<sel, ex_tune, ex_params, re_tune, re_params>>
  /\ UNCHANGED <<mixer, beside_tuning>>

\* ExoticSynth.set_param, lines 12-21
ExoticSetParam(name, value) ==
  /\ ex_params' = Store(ex_params, name, value)
  /\ ex_tune' =
       IF name = "pitch"
         THEN [ex_tune EXCEPT !.carrier = Tone(ExPitchBase, ExPitchOctaves * value)]
         ELSE IF name = "metal"
           THEN [ex_tune EXCEPT
                   !.modulator = Scaled(ex_tune.carrier, Milli + value * MetalSpan)]
           ELSE ex_tune
  /\ UNCHANGED <<sel, chip_tune, chip_params, re_tune, re_params>>
  /\ UNCHANGED <<mixer, beside_tuning>>

\* RetroSynth.set_param, lines 12-19
RetroSetParam(name, value) ==
  /\ re_params' = Store(re_params, name, value)
  /\ re_tune' =
       IF name = "pitch"
         THEN LET freq == Tone(PitchBase, PitchOctaves * value)
                  detune_amt == RetroDetuneBase + re_params'["detune"] * RetroDetuneSpan
              IN [re_tune EXCEPT !.osc1 = Scaled(freq, Milli - detune_amt),
                                 !.osc2 = Scaled(freq, Milli + detune_amt)]
         ELSE re_tune
  /\ UNCHANGED <<sel, chip_tune, chip_params, ex_tune, ex_params>>
  /\ UNCHANGED <<mixer, beside_tuning>>

(* --------------------------- drawn-wave voice -------------------------- *)

\* CustomDrawSynth.__init__: self.freq = 220.0
DrawFreq == 220
DrawNames == {"pitch"} \cup UnknownNames
\* tables handed to set_wavetable: in range, out of range, shorter, empty
Tables == {<<One, -One, Half, 0>>, <<2 * One, -(2 * One), 0, One>>, <<Half, -Half>>, <<>>}

\* np.clip(self.wavetable, -1.0, 1.0)
ClipTable(t) == [k \in DOMAIN t |-> Clip(t[k])]

\* CustomDrawSynth.set_param, lines 45-50
DrawSetParam(name, value) ==
  /\ cd_params' = Store(cd_params, name, value)
  /\ cd_tune' = IF name = "pitch"
                  THEN [cd_tune EXCEPT !.freq = Tone(PitchBase, PitchOctaves * value)]
                  ELSE cd_tune
  /\ UNCHANGED <<wavetable, sw_pc, cd_pc, cd_len, cd_left, cd_seen, cd_raised>>
  /\ UNCHANGED <<mixer, beside_draw>>

\* set_wavetable, lines 29-33: the guard, and the first assignment
\* self.wavetable = np.array(table)
SetWavetableCall(table) ==
  /\ sw_pc = "idle"
  /\ IF Len(table) > 0
       THEN /\ wavetable' = table
            /\ sw_pc' = "clip"
       ELSE UNCHANGED <<wavetable, sw_pc>>
  /\ UNCHANGED <<cd_tune, cd_params, cd_pc, cd_len, cd_left, cd_seen, cd_raised>>
  /\ UNCHANGED <<mixer, beside_draw>>

\* set_wavetable, line 35: the second assignment
\* self.wavetable = np.clip(self.wavetable, -1.0, 1.0)
SetWavetableClip ==
  /\ sw_pc = "clip"
  /\ wavetable' = ClipTable(wavetable)
  /\ sw_pc' = "idle"
  /\ UNCHANGED <<cd_tune, cd_params, cd_pc, cd_len, cd_left, cd_seen, cd_raised>>
  /\ UNCHANGED <<mixer, beside_draw>>

\* generate, lines 52-57: table_len = len(self.wavetable) is read once
DrawGenerateCall(n) ==
  /\ cd_pc = "idle"
  /\ cd_pc' = "gen"
  /\ cd_len' = Len(wavetable)
  /\ cd_left' = n
  /\ cd_seen' = {}
  /\ cd_raised' = FALSE
  /\ UNCHANGED <<wavetable, sw_pc, cd_tune, cd_params>>
  /\ UNCHANGED <<mixer, beside_draw>>

\* generate, lines 59-69: one iteration; self.wavetable is read as it is now,
\* the indices wrap at table_len; an index beyond the table is an IndexError,
\* which leaves generate
DrawSample ==
  /\ cd_pc = "gen"
  /\ cd_left > 0
  /\ LET idx0 == cd_tune.phase % cd_len
         idx1 == (idx0 + 1) % cd_len
     IN IF idx0 + 1 \in DOMAIN wavetable /\ idx1 + 1 \in DOMAIN wavetable
          THEN /\ cd_seen' = cd_seen \cup {wavetable}
               /\ cd_tune' = [cd_tune EXCEPT !.phase = (cd_tune.phase + 1) % cd_len]
               /\ cd_left' = cd_left - 1
               /\ UNCHANGED cd_raised
          ELSE /\ cd_raised' = TRUE
               /\ cd_left' = 0
               /\ UNCHANGED <<cd_seen, cd_tune>>
  /\ UNCHANGED <<wavetable, sw_pc, cd_params, cd_pc, cd_len>>
  /\ UNCHANGED <<mixer, beside_draw>>

\* generate, lines 71-78: envelope, stereo, gain; the call ends
DrawReturn ==
  /\ cd_pc = "gen"
  /\ cd_left = 0
  /\ cd_pc' = "idle"
  /\ UNCHANGED <<wavetable, sw_pc, cd_tune, cd_params, cd_len, cd_left, cd_seen, cd_raised>>
  /\ UNCHANGED <<mixer, beside_draw>>

(* ---------------------------- match engine ----------------------------- *)

\* match_eps = 0.05, in hundredths of the value circle
Eps == 5
\* the circle of cup values, in hundredths
Circle == 100
\* hold_ms and cooldown_ms handed to the constructor, in ticks of the clock
HoldTicks == 1
CooldownTicks == 2
\* the longest time between two check calls, in ticks
MaxGap == 2
\* check is called up to this time
MaxTime == 10
\* time.time() at the first check call
FirstCall == CooldownTicks + 1
\* a name that is not in self.candidates
NoCand == -1
\* cup values handed to check, in hundredths: 0 is near both 3 and 98 (across
\* the wrap), which are not near each other. Every match condition is true
\* for some of these vectors and false for others; in the second and the fifth
\* the cups are near along the chain A-B-C-D but not all mutually
CupInputs ==
  { <<0, 0, 0, 0>>, <<0, 3, 0, 98>>, <<3, 98, 3, 98>>, <<3, 3, 98, 98>>,
    <<98, 0, 3, 3>>, <<0, 3, 98, 0>> }

Pairs == {"AB", "AC", "AD", "BC", "BD", "CD"}
Triples == {"ABC", "ABD", "ACD", "BCD"}
MatchNames == Pairs \cup Triples \cup {"ABCD"}

\* the cups a match name lists, in order
Cups(name) ==
  CASE name = "AB" -> <<1, 2>> [] name = "AC" -> <<1, 3>> [] name = "AD" -> <<1, 4>>
    [] name = "BC" -> <<2, 3>> [] name = "BD" -> <<2, 4>> [] name = "CD" -> <<3, 4>>
    [] name = "ABC" -> <<1, 2, 3>> [] name = "ABD" -> <<1, 2, 4>>
    [] name = "ACD" -> <<1, 3, 4>> [] name = "BCD" -> <<2, 3, 4>>
    [] OTHER -> <<1, 2, 3, 4>>

\* check.near, lines 32-36: the circular distance is below eps
Near(x, y) ==
  LET d == IF x >= y THEN x - y ELSE y - x
      c == IF 2 * d > Circle THEN Circle - d ELSE d
  IN c < Eps

\* check, lines 42, 50, 57: every cup of the name is near the next one listed
Condition(name, v) ==
  \A k \in 1..(Len(Cups(name)) - 1) : Near(v[Cups(name)[k]], v[Cups(name)[k + 1]])

\* _handle_candidate, lines 69-83: the candidate entry afterwards
CandidateAfter(c, t, is_near) ==
  IF is_near THEN (IF c = NoCand THEN t ELSE c) ELSE NoCand

\* _handle_candidate, lines 74-77: the value returned
HeldLongEnough(c, t, is_near) == is_near /\ c # NoCand /\ t - c > HoldTicks

\* _handle_candidate, lines 69-83: the active flag afterwards
ActiveAfter(a, c, t, is_near) ==
  IF is_near THEN (IF HeldLongEnough(c, t, is_near) THEN TRUE ELSE a) ELSE FALSE

\* check, line 56
CooldownOver(t) == t - last_super_match_time > CooldownTicks

\* check(v), lines 24-67, called gap ticks after the previous call
Check(v, gap) ==
  /\ clock + gap <= MaxTime
  /\ clock' = clock + gap
  /\ candidates' =
       [n \in MatchNames |->
          IF n = "ABCD" /\ ~CooldownOver(clock')
            THEN candidates[n]
            ELSE CandidateAfter(candidates[n], clock', Condition(n, v))]
  /\ active_matches' =
       [n \in MatchNames |->
          IF n = "ABCD" /\ ~CooldownOver(clock')
            THEN FALSE
            ELSE ActiveAfter(active_matches[n], candidates[n], clock', Condition(n, v))]
  /\ last_super_match_time' =
       IF /\ CooldownOver(clock')
          /\ HeldLongEnough(candidates["ABCD"], clock', Condition("ABCD", v))
         THEN clock'
         ELSE last_super_match_time
  /\ near_since' =
       [n \in MatchNames |->
          IF Condition(n, v)
            THEN (IF near_since[n] = NoCand THEN clock' ELSE near_since[n])
            ELSE NoCand]
  /\ UNCHANGED <<mixer, beside_matcher>>

(* ---------------------------- specification ---------------------------- *)

\* self.stream = None, and no start / stop call made yet
InitDriver ==
  /\ stream = None
  /\ lc_pc = "idle"
  /\ lc_res = "none"
  /\ lc_raised = FALSE

\* Oscillator.__init__, LFO.__init__, ChipSynth.__init__: phases 0.0, and no
\* block requested yet
InitGenerators ==
  /\ osc = [phase |-> 0, wave |-> "sine", inc |-> 1]
  /\ lfo_phase = 0
  /\ chip = <<0, 0>>
  /\ blk = [op |-> "none", n |-> 0, raised |-> FALSE, out |-> <<>>]

\* Envelope.__init__ with its default arguments
InitEnvelope ==
  /\ env_state = "idle"
  /\ env_level = 0
  /\ adsr = [attack |-> MinTime \div 2, decay |-> 3 * MinTime, sustain |-> EnvOne \div 2,
             release |-> 3 * MinTime]
  /\ env_pc = "idle"
  /\ env_left = 0
  /\ env_out = <<>>
  /\ env_run = -2

\* MoogSynth.__init__, lines 12-25
InitMoog ==
  /\ cutoff = SetCutoff(InitCutoff)
  /\ resonance = SetResonance(InitRes)
  /\ moog_params = [n \in MoogParamNames |-> Half]
  /\ moog_lfo = 0
  /\ moog_pc = "idle"
  /\ base_cutoff = 0
  /\ lfo_vals = <<>>
  /\ filter_set = FALSE
  /\ mod_trace = <<>>
  /\ proc_cutoff = 0
  /\ moog_tune = [osc1 |-> Hz(MoogOsc1), osc2 |-> Hz(MoogOsc2), lfo_rate |-> MoogLfoRate]

\* ChipSynth.__init__, ExoticSynth.__init__, RetroSynth.__init__
InitVoices ==
  /\ chip_tune = [osc1 |-> Hz(ChipOsc1), osc2 |-> Hz(ChipOsc2), phases |-> <<0, 0>>]
  /\ chip_params = [n \in {"pitch", "timbre", "detune", "decay"} |->
                      IF n = "detune" THEN 0 ELSE Half]
  /\ ex_tune = [carrier |-> Hz(ExCarrier), modulator |-> Hz(ExModulator),
                phases |-> <<0, 0>>]
  /\ ex_params = [n \in {"pitch", "metal"} |-> Half]
  /\ re_tune = [osc1 |-> Hz(RetroOsc), osc2 |-> Hz(RetroOsc), phases |-> <<0, 0>>]
  /\ re_params = [n \in {"pitch", "detune"} |-> Half]

InitTuning == sel = "none" /\ InitVoices

\* CustomDrawSynth.__init__: a sine table (one cycle), phase 0.0, freq 220.0
InitDraw ==
  /\ wavetable = [k \in 1..Cycle |-> Sin(k - 1)]
  /\ sw_pc = "idle"
  /\ cd_tune = [freq |-> Hz(DrawFreq), phase |-> 0]
  /\ cd_params = [n \in {"pitch", "brightness"} |-> Half]
  /\ cd_pc = "idle"
  /\ cd_len = 0
  /\ cd_left = 0
  /\ cd_seen = {}
  /\ cd_raised = FALSE

\* everything besides the mixer, as constructed
\* MatchEngine.__init__, lines 4-22; the first check call comes at a time.time()
\* that is more than the cooldown after 0
InitMatch ==
  /\ clock = FirstCall
  /\ candidates = [n \in MatchNames |-> NoCand]
  /\ active_matches = [n \in MatchNames |-> FALSE]
  /\ last_super_match_time = 0
  /\ near_since = [n \in MatchNames |-> NoCand]

InitDetached ==
  /\ InitDriver /\ InitGenerators /\ InitEnvelope /\ InitMoog /\ InitTuning /\ InitDraw
  /\ InitMatch

\* AudioEngine.__init__, and a voice's state at construction
InitMixer ==
  /\ gm_ret = "none"
  /\ active_synths = <<>>
  /\ mutes = [i \in 0..(NumStrips - 1) |-> FALSE]
  /\ vols = [i \in 0..(NumStrips - 1) |-> One]
  /\ global_mute = FALSE
  /\ lock = "free"
  /\ viz_buffer = ZerosMono(Frames)
  /\ phase = [v \in GoodVoices |-> 0]
  /\ params = [v \in Voices |-> [n \in ParamNames |-> One \div 2]]
  /\ sp_log = [args |-> <<>>, calls |-> <<>>, raised |-> FALSE]
  /\ cb_pc = "idle"
  /\ cb_i = 0
  /\ mixed = Zeros(Frames)
  /\ exc = FALSE
  /\ outdata = Zeros(Frames)
  /\ cb_outcome = "none"
  /\ cb_path = "none"
  /\ cb_gen = {}
  /\ cb_skip = {}
  /\ cb_fault = -1
  /\ ctl_pc = "idle"
  /\ ss_ch = 0
  /\ ss_voice = None

Init == InitMixer /\ InitDetached

Callback == CbEnter \/ CbTryLock \/ CbMix \/ CbPost \/ CbExcept \/ CbFinally

Next ==
  \/ CbEnter
  \/ CbTryLock
  \/ CbMix
  \/ CbPost
  \/ CbExcept
  \/ CbFinally
  \/ \E ch \in Channels, v \in Voices : SetSynthCall(ch, v)
  \/ SetSynthAcquire
  \/ SetSynthBody
  \/ \E ch \in Channels : ToggleMute(ch)
  \/ ToggleGlobalMute

Spec == Init /\ [][Next]_vars

\* the control thread alone: structural and parameter operations, no stream running
NextControl ==
  \/ \E ch \in Channels, v \in Voices : SetSynthCall(ch, v)
  \/ SetSynthAcquire
  \/ SetSynthBody
  \/ \E ch \in Channels, n \in ParamNames, x \in ParamValues : SetParam(ch, n, x)
  \/ \E ch \in Channels : ToggleMute(ch)
  \/ ToggleGlobalMute

SpecControl == Init /\ [][NextControl]_vars

\* slates main.py can have installed with set_synth before it calls start()
StartSlates == {<<"v1">>, <<"v1", "bad">>}

\* the engine as main.py has it when it calls start(): voices installed
InitStream ==
  /\ active_synths \in StartSlates
  /\ mutes = [i \in 0..(NumStrips - 1) |-> FALSE]
  /\ vols = [i \in 0..(NumStrips - 1) |-> One]
  /\ global_mute = FALSE
  /\ lock = "free"
  /\ viz_buffer = ZerosMono(Frames)
  /\ phase = [v \in GoodVoices |-> 0]
  /\ params = [v \in Voices |-> [n \in ParamNames |-> One \div 2]]
  /\ sp_log = [args |-> <<>>, calls |-> <<>>, raised |-> FALSE]
  /\ cb_pc = "idle"
  /\ cb_i = 0
  /\ mixed = Zeros(Frames)
  /\ exc = FALSE
  /\ outdata = Zeros(Frames)
  /\ cb_outcome = "none"
  /\ cb_path = "none"
  /\ cb_gen = {}
  /\ cb_skip = {}
  /\ cb_fault = -1
  /\ ctl_pc = "idle"
  /\ ss_ch = 0
  /\ ss_voice = None
  /\ gm_ret = "none"
  /\ InitDetached

\* the stream life cycle: start and stop on the control thread, and the
\* callback invoked by the device while the stream runs
NextStream ==
  \/ StartCall
  \/ StartOpen
  \/ StartRun
  \/ StopCall
  \/ StopStream
  \/ StopClose
  \/ StreamCallback
  \/ CbTryLock
  \/ CbMix
  \/ CbPost
  \/ CbExcept
  \/ CbFinally
  \/ (lc_pc = "idle" /\ ToggleGlobalMute)

SpecStream == InitStream /\ [][NextStream]_vars

\* stereo frames a finished mixing loop can have accumulated from loud voices
MixFrames == {<<0, 0>>, <<2 * One, -(2 * One)>>, <<One + Gain, Gain>>, <<-(One + Gain), One>>}

\* the audio thread at the end of the mixing loop of a first callback, holding
\* the lock, with whatever the voices on the slate have added up to
InitMix ==
  /\ active_synths = <<"v1">>
  /\ mutes = [i \in 0..(NumStrips - 1) |-> FALSE]
  /\ vols = [i \in 0..(NumStrips - 1) |-> One]
  /\ global_mute = FALSE
  /\ lock = "audio"
  /\ viz_buffer = ZerosMono(Frames)
  /\ phase = [v \in GoodVoices |-> NextPhase(0, Frames)]
  /\ params = [v \in Voices |-> [n \in ParamNames |-> One \div 2]]
  /\ sp_log = [args |-> <<>>, calls |-> <<>>, raised |-> FALSE]
  /\ cb_pc = "mix"
  /\ cb_i = 1
  /\ mixed \in [1..Frames -> MixFrames]
  /\ exc = FALSE
  /\ outdata = Zeros(Frames)
  /\ cb_outcome = "running"
  /\ cb_path = "locked"
  /\ cb_gen = {0}
  /\ cb_skip = {}
  /\ cb_fault = -1
  /\ ctl_pc = "idle"
  /\ ss_ch = 0
  /\ ss_voice = None
  /\ gm_ret = "none"
  /\ InitDetached

\* callbacks over a one-voice slate, with the mute controls
NextMix ==
  \/ CbEnter
  \/ CbTryLock
  \/ CbMix
  \/ CbPost
  \/ CbFinally
  \/ ToggleMute(0)
  \/ ToggleGlobalMute

SpecMix == InitMix /\ [][NextMix]_vars

\* an oscillator of any waveform and of either increment, an LFO and a
\* ChipSynth, all freshly constructed, asked for blocks of 0..MaxBlock frames
InitOsc ==
  /\ InitMixer
  /\ InitDraw
  /\ InitMatch
  /\ InitDriver
  /\ InitEnvelope
  /\ InitMoog
  /\ InitTuning
  /\ osc \in [phase : {0}, wave : Waveforms, inc : {1, 2}]
  /\ lfo_phase = 0
  /\ chip = <<0, 0>>
  /\ blk = [op |-> "none", n |-> 0, raised |-> FALSE, out |-> <<>>]

NextOsc ==
  \/ \E n \in 0..MaxBlock : OscNextCall(n)
  \/ \E n \in 0..MaxBlock : LfoGenerateCall(n)
  \/ \E n \in 0..MaxBlock : ChipGenerateCall(n)

SpecOsc == InitOsc /\ [][NextOsc]_vars

\* an Envelope constructed with any in-range parameters; the control thread
\* triggers, releases and replaces the parameters while the audio thread
\* generates blocks of 0..MaxBlock samples
InitEnv ==
  /\ InitMixer
  /\ InitDraw
  /\ InitMatch
  /\ InitDriver
  /\ InitGenerators
  /\ InitMoog
  /\ InitTuning
  /\ env_state = "idle"
  /\ env_level = 0
  /\ adsr \in AdsrParams
  /\ env_pc = "idle"
  /\ env_left = 0
  /\ env_out = <<>>
  /\ env_run = -2

NextEnv ==
  \/ EnvTrigger
  \/ EnvReleaseNote
  \/ \E d \in AdsrParams : SetAdsr(d)
  \/ \E n \in 0..MaxBlock : EnvGenerateCall(n)
  \/ EnvSample
  \/ EnvGenerateReturn

SpecEnv == InitEnv /\ [][NextEnv]_vars

\* a MoogSynth: set_param from the control thread with any value, generate
\* on the audio thread
NextMoog ==
  \/ \E name \in MoogParamNames, value \in MoogValues : MoogSetParam(name, value)
  \/ \E n \in 1..MaxBlock : MoogGenerateCall(n)
  \/ MoogModulate
  \/ MoogRestore
  \/ MoogProcess
  \/ MoogReturn

SpecMoog == Init /\ [][NextMoog]_vars

\* one freshly constructed voice of any variant, and set_param calls on it
\* with the names it interprets and one it does not
InitTune ==
  /\ InitMixer
  /\ InitDriver
  /\ InitGenerators
  /\ InitEnvelope
  /\ InitMoog
  /\ sel \in TunedVoices
  /\ InitVoices
  /\ InitDraw
  /\ InitMatch

NextTune ==
  \/ \E name \in ChipNames, value \in TuneValues : sel = "chip" /\ ChipSetParam(name, value)
  \/ \E name \in ExoticNames, value \in TuneValues :
       sel = "exotic" /\ ExoticSetParam(name, value)
  \/ \E name \in RetroNames, value \in TuneValues : sel = "retro" /\ RetroSetParam(name, value)
  \/ \E name \in MoogNames, value \in TuneValues : sel = "moog" /\ MoogSetParam(name, value)
  \/ \E name \in DrawNames, value \in TuneValues : sel = "draw" /\ DrawSetParam(name, value)

SpecTune == InitTune /\ [][NextTune]_vars

\* a CustomDrawSynth: the control thread replaces the wavetable while the audio
\* thread generates blocks of 1..MaxBlock frames
NextDraw ==
  \/ \E table \in Tables : SetWavetableCall(table)
  \/ SetWavetableClip
  \/ \E n \in 1..MaxBlock : DrawGenerateCall(n)
  \/ DrawSample
  \/ DrawReturn

SpecDraw == Init /\ [][NextDraw]_vars

\* an envelope whose note is released and not triggered or reconfigured again
\* before it has ended; generate() is called with blocks of 1..MaxBlock frames
NextRelease ==
  \/ env_state # "release" /\ EnvTrigger
  \/ \E d \in AdsrParams : env_state # "release" /\ SetAdsr(d)
  \/ EnvReleaseNote
  \/ \E n \in 1..MaxBlock : EnvGenerateCall(n)
  \/ EnvSample
  \/ EnvGenerateReturn

\* generate() is called again and again (with at least one frame), and every
\* call runs to its end
FairRelease ==
  /\ InitEnv /\ [][NextRelease]_vars
  /\ WF_vars(\E n \in 1..MaxBlock : EnvGenerateCall(n))
  /\ WF_vars(EnvSample)
  /\ WF_vars(EnvGenerateReturn)

\* a MatchEngine whose check is called every 1..MaxGap ticks with cup values
NextMatch == \E v \in CupInputs, gap \in 1..MaxGap : Check(v, gap)

SpecMatch == Init /\ [][NextMatch]_vars

\* The audio thread's steps inside a callback always proceed (the thread is
\* scheduled by the audio subsystem); set_synth's body proceeds once it holds
\* the lock. The blocking acquire of set_synth is strongly fair: callbacks are
\* periodic, the lock is free in the gap between two callbacks, and the waiting
\* control thread takes it there.
FairSpec ==
  /\ Spec
  /\ WF_vars(CbTryLock \/ CbMix \/ CbPost \/ CbExcept \/ CbFinally)
  /\ SF_vars(SetSynthAcquire)
  /\ WF_vars(SetSynthBody)

(* ------------------------------- claims -------------------------------- *)

\* the callback is between its successful acquire and its release
InMixingPass == cb_pc \in {"mix", "except", "finally"}
\* set_synth is inside its with block
InSetSynthCS == ctl_pc = "ss_cs"

\* C1: set_synth's critical section and the callback's mixing pass never
\* overlap: the two are never in progress together, each holds the lock while
\* in progress, and every step that changes the slate is taken with the lock
\* held by the control thread and no mixing pass in progress.
C1_MutualExclusion ==
  /\ [](/\ ~(InMixingPass /\ InSetSynthCS)
        /\ (InMixingPass => lock = "audio")
        /\ (InSetSynthCS => lock = "control"))
  /\ [][active_synths' # active_synths =>
          lock = "control" /\ ~InMixingPass /\ ~InMixingPass']_vars
  /\ [][(~InMixingPass /\ InMixingPass') => ~InSetSynthCS /\ ~InSetSynthCS']_vars

\* C1 witness: set_synth waits for the lock while a mixing pass that has
\* already generated a channel holds it
C1_Witness == InMixingPass /\ ctl_pc = "ss_wait" /\ cb_gen # {}

\* C2: at its try-lock the callback always has a step (it never waits), and a
\* callback that reaches the try-lock while set_synth holds the lock returns
\* in that step with an all-zero block, having called generate() on no voice.
C2_NoWaitDropout ==
  /\ [](cb_pc = "try_lock" => ENABLED CbTryLock)
  /\ [][(cb_pc = "try_lock" /\ lock = "control" /\ cb_pc' # cb_pc) =>
          /\ cb_pc' = "idle"
          /\ cb_outcome' = "returned"
          /\ outdata' = Zeros(Frames)
          /\ cb_gen' = {} /\ cb_fault' = -1
          /\ phase' = phase
          /\ lock' = "control"]_vars

\* C2 witness: a callback has returned through the dropout branch while
\* set_synth is still inside its critical section, with a voice on the slate
C2_Witness ==
  /\ cb_path = "busy" /\ cb_outcome = "returned" /\ cb_pc = "idle"
  /\ InSetSynthCS
  /\ \E k \in DOMAIN active_synths : active_synths[k] \in GoodVoices

\* C3: the lock is free whenever neither a mixing pass nor a set_synth critical
\* section is in progress; every callback invocation returns; every set_synth
\* call that has started acquires the lock and returns.
C3_NoDeadlock ==
  /\ []((~InMixingPass /\ ~InSetSynthCS) => lock = "free")
  /\ (cb_pc # "idle" ~> cb_pc = "idle")
  /\ (ctl_pc = "ss_wait" ~> ctl_pc = "ss_cs")
  /\ (ctl_pc = "ss_cs" ~> ctl_pc = "idle")

\* C3 witness: set_synth waits for the lock while a mixing pass in which
\* generate() raised still holds it
C3_Witness == ctl_pc = "ss_wait" /\ cb_pc = "except" /\ lock = "audio"

\* C4: a callback invoked with global_mute set returns at once with an all-zero
\* output block and an all-zero viz buffer, whatever the slate, the mute flags
\* and the lock are.
C4_GlobalMuteSilence ==
  /\ [](cb_path = "muted" =>
          /\ cb_pc = "idle" /\ cb_outcome = "returned"
          /\ outdata = Zeros(Frames)
          /\ viz_buffer = ZerosMono(Frames))
  /\ [][(cb_pc = "idle" /\ global_mute /\ audio' # audio) =>
          /\ cb_pc' = "idle" /\ cb_outcome' = "returned" /\ cb_path' = "muted"
          /\ outdata' = Zeros(Frames)
          /\ viz_buffer' = ZerosMono(Frames)
          /\ phase' = phase /\ lock' = lock]_vars

\* C4 witness: a globally muted callback has returned while the control thread
\* holds the lock and an unmuted voice sits on channel 0
C4_Witness ==
  /\ cb_path = "muted" /\ cb_outcome = "returned"
  /\ lock = "control"
  /\ Len(active_synths) > 0 /\ active_synths[1] \in GoodVoices /\ ~mutes[0]

\* C5: no callback invocation ends by raising to its caller; after a pass in
\* which generate() raised the callback has returned, nothing is left
\* propagating, the audio thread does not hold the lock and the next callback
\* can be entered.
C5_FaultContained ==
  /\ cb_outcome # "raised"
  /\ (cb_pc = "idle" => ~exc /\ lock # "audio" /\ ENABLED CbEnter)
  /\ (cb_path = "fault" /\ cb_pc = "idle" => cb_outcome = "returned")

\* C5 witness: a callback whose pass hit the raising voice has returned
C5_Witness ==
  /\ cb_path = "fault" /\ cb_pc = "idle" /\ cb_outcome = "returned"
  /\ \E k \in DOMAIN active_synths : active_synths[k] = "bad"

\* the channel indices of the slate
SlateChannels == 0..(Len(active_synths) - 1)

\* C6 (as claimed): when the voice on one channel raises in generate(), every
\* other unmuted channel holding a voice is still generated and its audio is
\* in the output block of that callback.
C6_Original ==
  (/\ cb_pc = "finally" /\ cb_fault # -1
   /\ active_synths[cb_fault + 1] = "bad"
   /\ \A i \in SlateChannels : active_synths[i + 1] # None)
  => /\ \A i \in SlateChannels :
          (i # cb_fault /\ active_synths[i + 1] \in GoodVoices
             /\ i \notin cb_skip /\ ~SlotMuted(i)) => i \in cb_gen
     /\ outdata = MasterAndClip(mixed)

\* C6 (amended): a generation fault silences the whole block: the pass stops at
\* the faulting channel, no channel after it is generated, and the output block
\* of that callback stays all-zero, also when channels before it were generated.
C6_FaultSilencesBlock ==
  /\ (cb_fault # -1 =>
        /\ outdata = Zeros(Frames)
        /\ \A i \in cb_gen \cup cb_skip : i < cb_fault)
  /\ (cb_path = "fault" => outdata = Zeros(Frames))

\* C6 witness: the pass generated the voice of channel 0, then the voice of
\* channel 1 raised; the mix of channel 0 is non-zero and is not written out
C6_Witness ==
  /\ cb_pc = "finally" /\ cb_fault = 1
  /\ active_synths[2] = "bad"
  /\ cb_gen = {0} /\ mixed # Zeros(Frames)
  /\ outdata = Zeros(Frames)

\* C7 (as claimed): a pass calls generate() only on slots that hold a voice,
\* and with sound voices on the slate the block is the mix of exactly the
\* unmuted slots that hold one.
C7_Original ==
  cb_pc = "finally" =>
    /\ (cb_fault # -1 => active_synths[cb_fault + 1] # None)
    /\ ((\A i \in SlateChannels : active_synths[i + 1] # "bad") =>
          /\ cb_gen = {i \in SlateChannels :
                         active_synths[i + 1] # None /\ i \notin cb_skip}
          /\ outdata = MasterAndClip(mixed))

C9_Original ==
  (cb_pc = "idle" /\ cb_outcome = "returned") => viz_buffer = MonoSum(outdata)

\* C10: an engine set_param raises nothing and changes nothing of the engine;
\* on a channel at or beyond the slate's length, or whose slot holds no voice,
\* it invokes no voice and leaves every parameter map as it was; on a slot
\* holding a voice it invokes that voice's set_param(name, value) exactly once.
C10_SetParamNoOp ==
  [][sp_log' # sp_log =>
       LET ch == sp_log'.args[1]
           n  == sp_log'.args[2]
           x  == sp_log'.args[3]
       IN /\ ~sp_log'.raised
          /\ engine' = engine /\ phase' = phase /\ control' = control
          /\ IF ch >= Len(active_synths) \/ active_synths[ch + 1] = None
               THEN sp_log'.calls = <<>> /\ params' = params
               ELSE /\ sp_log'.calls = << <<active_synths[ch + 1], n, x>> >>
                    /\ params' = [params EXCEPT ![active_synths[ch + 1]][n] = x]]_vars

\* C10 witness: the last set_param addressed a slot that exists and holds the
\* placeholder, and invoked no voice
C10_Witness ==
  /\ sp_log.args # <<>> /\ sp_log.calls = <<>> /\ ~sp_log.raised
  /\ sp_log.args[1] < Len(active_synths)
  /\ active_synths[sp_log.args[1] + 1] = None

\* C11: toggle_mute(channel), for a channel 0..3, negates that channel's mute
\* flag and leaves the other flags, the volumes, the global mute and the slate
\* as they were, so a second toggle of the channel restores the flags;
\* toggle_global_mute negates the global flag only and returns its new value.
C11_ToggleFrame ==
  [][ /\ \A ch \in 0..(NumStrips - 1) :
           ToggleMute(ch) =>
             /\ mutes' = [i \in DOMAIN mutes |-> IF i = ch THEN ~mutes[i] ELSE mutes[i]]
             /\ [i \in DOMAIN mutes |-> IF i = ch THEN ~mutes'[i] ELSE mutes'[i]] = mutes
             /\ UNCHANGED <<vols, global_mute, active_synths, gm_ret>>
      /\ mutes' # mutes =>
           /\ Cardinality({i \in DOMAIN mutes : mutes'[i] # mutes[i]}) = 1
           /\ UNCHANGED <<vols, global_mute, active_synths, gm_ret>>
      /\ global_mute' # global_mute =>
           /\ global_mute' = ~global_mute
           /\ gm_ret' = global_mute'
           /\ UNCHANGED <<mutes, vols, active_synths>>
    ]_vars

\* channel 0 toggled once, channel 1 toggled back or never, the global mute
\* toggled on and reported
C11_Witness ==
  /\ mutes[0] /\ ~mutes[1]
  /\ global_mute /\ gm_ret = TRUE
  /\ Len(active_synths) > 0

C13_StopBeforeClose ==
  /\ lc_pc = "closing" => stream # "running"
  /\ stream \in {"stopped", "closed"} => (cb_pc = "idle" /\ ~ENABLED StreamCallback)

\* a stream that ran callbacks was stopped and closed
C13_Witness ==
  /\ stream = "closed" /\ lc_res = "stopped" /\ lc_pc = "idle"
  /\ cb_outcome = "returned" /\ cb_path = "mixed"

\* C14: whatever the voices, channel volumes and master volume add up to, every
\* sample of the output block lies within [-1, 1].
C14_OutputClipped ==
  \A k \in DOMAIN outdata : \A j \in 1..2 : -One <= outdata[k][j] /\ outdata[k][j] <= One

\* a block was written whose mix exceeded both limits after the master volume
C14_Witness ==
  /\ cb_pc = "finally"
  /\ \E k \in DOMAIN mixed :
       /\ Times(mixed[k][1], MasterVol) > One /\ outdata[k][1] = One
       /\ Times(mixed[k][2], MasterVol) < -One /\ outdata[k][2] = -One

\* C15 (as stated): for every n >= 0, n = 0 included, Oscillator.next(n) returns
\* exactly n samples and a voice's generate(n) exactly n stereo frames, and
\* neither raises.
C15_Original == blk.op # "none" => (~blk.raised /\ Len(blk.out) = blk.n)

\* C16: inside Envelope.generate the state changes only attack -> decay (the
\* level has reached 1), decay -> sustain (the level has reached the sustain
\* level) and release -> idle (the level has reached 0); generate never leaves
\* idle or sustain; trigger() sets attack and release_note() sets release from
\* any state; nothing else changes the state.
C16_StateOrder ==
  [][ /\ EnvSample =>
           \/ env_state' = env_state
           \/ env_state = "attack" /\ env_state' = "decay" /\ env_level' = EnvOne
           \/ env_state = "decay" /\ env_state' = "sustain" /\ env_level' = adsr'.sustain
           \/ env_state = "release" /\ env_state' = "idle" /\ env_level' = 0
      /\ EnvTrigger => env_state' = "attack"
      /\ EnvReleaseNote => env_state' = "release"
      /\ env_state' # env_state => (EnvSample \/ EnvTrigger \/ EnvReleaseNote)
    ]_vars

\* a release that ran to idle inside generate, after the envelope had been
\* through attack and decay
C16_Witness ==
  /\ env_state = "idle" /\ env_pc = "gen" /\ Len(env_out) > 1
  /\ env_out[1] > 0 /\ env_out[Len(env_out)] = 0

\* C17: with sustain in [0, 1] and positive times, after any sequence of
\* trigger(), release_note(), generate(n) and set_adsr with in-range
\* parameters, the level and every returned sample lie in [0, 1].
C17_LevelInRange ==
  /\ 0 <= env_level /\ env_level <= EnvOne
  /\ \A k \in DOMAIN env_out : 0 <= env_out[k] /\ env_out[k] <= EnvOne

\* an attack stopped at 1.0 inside a block, from a level one step below
C17_Witness ==
  /\ env_state = "decay" /\ env_level = EnvOne
  /\ Len(env_out) > 1 /\ env_out[Len(env_out)] = EnvOne
  /\ env_out[Len(env_out) - 1] < EnvOne
  /\ env_run = -1

\* C18 (as stated): a sample produced while the state is attack is not below
\* the sample before it, and a sample produced while the state is decay or
\* release is not above the sample before it, also when set_adsr replaces the
\* parameters between or during generate calls.
C18_Original ==
  [][ EnvSample =>
        /\ env_state = "attack" => env_level' >= env_level
        /\ env_state \in {"decay", "release"} => env_level' <= env_level
    ]_vars

C20_FilterInRange ==
  /\ CutoffMin <= cutoff /\ cutoff <= CutoffMax
  /\ 0 <= resonance /\ resonance <= ResMax

\* inside the modulation loop, a cutoff modulated upwards from a base that
\* out-of-range parameter values had driven to the ceiling, the resonance
\* driven to its floor
C20_Witness ==
  /\ moog_pc = "mod" /\ lfo_vals # <<>>
  /\ base_cutoff = CutoffMax /\ cutoff = CutoffMax
  /\ moog_params["filter"] > One /\ moog_params["resonance"] < 0
  /\ resonance = 0

\* the cutoff set_param("filter", v) maps the stored parameter to
MappedCutoff == SetCutoff(FilterBase + (moog_params["filter"] * FilterSpan) \div One)

\* C21 (as stated): when the control thread has completed set_param("filter",
\* v) before, during or after a generate(), then once no generate() is in
\* flight the filter's cutoff is the cutoff mapped from the latest such write.
C21_Original == (moog_pc = "idle" /\ filter_set) => cutoff = MappedCutoff

\* C28 (as stated): while the ladder filter processes frame i of the block, the
\* cutoff in effect is the one modulated by the LFO value sampled for frame i
\* (base_cutoff * (1 + (lfo_i - 0.5) * depth), clamped), not the base cutoff.
C28_Original ==
  moog_pc = "done" => \A i \in DOMAIN mod_trace : proc_cutoff = mod_trace[i]

\* C22 (as stated): in the freshly constructed state and after any sequence of
\* set_param("pitch", p) and set_param("metal", m) calls on an ExoticSynth,
\* modulator.freq = carrier.freq * (1 + 5.5 * metal) for the current metal
\* parameter, with the ratio in [1, 6.5].
C22_Original ==
  LET ratio == Milli + ex_params["metal"] * MetalSpan IN
    /\ ex_tune.modulator = Scaled(ex_tune.carrier, ratio)
    /\ Milli <= ratio /\ ratio <= Milli + One * MetalSpan

\* C23 (as stated): after any sequence of set_param("pitch", p) and
\* set_param("detune", d) calls on a RetroSynth, in any order, osc1.freq = f *
\* (1 - a) and osc2.freq = f * (1 + a), with f mapped from the current pitch
\* parameter and a = 0.005 + 0.02 * the current detune parameter.
C23_Original ==
  [][ (re_params'["pitch"] # re_params["pitch"] \/ re_params'["detune"] # re_params["detune"]) =>
        LET f == Tone(PitchBase, PitchOctaves * re_params'["pitch"])
            a == RetroDetuneBase + re_params'["detune"] * RetroDetuneSpan
        IN /\ re_tune'.osc1 = Scaled(f, Milli - a)
           /\ re_tune'.osc2 = Scaled(f, Milli + a)
    ]_vars

\* C24 (as stated): when set_wavetable runs concurrently with generate(n),
\* every sample of that call is read from one single table, whose values all
\* lie in [-1, 1] and whose length is the length the indices wrap at; no read
\* uses an index outside the table.
C24_Original ==
  /\ ~cd_raised
  /\ Cardinality(cd_seen) <= 1
  /\ \A t \in cd_seen :
       /\ Len(t) = cd_len
       /\ \A k \in DOMAIN t : -One <= t[k] /\ t[k] <= One

\* C25: for every voice variant and every name its set_param has no branch
\* for, set_param(name, value) stores value under name in params and changes
\* nothing else: the other params entries, the oscillator frequencies and
\* phases, the filter cutoff and resonance, the LFO rate, the wavetable and
\* the envelope all stay as they were.
C25_UnknownParam ==
  [][ \A name \in UnknownNames, value \in TuneValues :
        /\ ChipSetParam(name, value) =>
             /\ DOMAIN chip_params' = DOMAIN chip_params \cup {name}
             /\ chip_params'[name] = value
             /\ \A n \in DOMAIN chip_params \ {name} : chip_params'[n] = chip_params[n]
             /\ UNCHANGED <<chip_tune, ex_tune, ex_params, re_tune, re_params>>
             /\ UNCHANGED <<mixer, driver, generators, envelope, moog, draw>>
        /\ ExoticSetParam(name, value) =>
             /\ DOMAIN ex_params' = DOMAIN ex_params \cup {name}
             /\ ex_params'[name] = value
             /\ \A n \in DOMAIN ex_params \ {name} : ex_params'[n] = ex_params[n]
             /\ UNCHANGED <<ex_tune, chip_tune, chip_params, re_tune, re_params>>
             /\ UNCHANGED <<mixer, driver, generators, envelope, moog, draw>>
        /\ RetroSetParam(name, value) =>
             /\ DOMAIN re_params' = DOMAIN re_params \cup {name}
             /\ re_params'[name] = value
             /\ \A n \in DOMAIN re_params \ {name} : re_params'[n] = re_params[n]
             /\ UNCHANGED <<re_tune, chip_tune, chip_params, ex_tune, ex_params>>
             /\ UNCHANGED <<mixer, driver, generators, envelope, moog, draw>>
        /\ MoogSetParam(name, value) =>
             /\ DOMAIN moog_params' = DOMAIN moog_params \cup {name}
             /\ moog_params'[name] = value
             /\ \A n \in DOMAIN moog_params \ {name} : moog_params'[n] = moog_params[n]
             /\ UNCHANGED <<cutoff, resonance, moog_tune, moog_lfo, moog_pc, base_cutoff,
                            lfo_vals, filter_set, mod_trace, proc_cutoff>>
             /\ UNCHANGED <<mixer, driver, generators, envelope, tuning, draw>>
        /\ DrawSetParam(name, value) =>
             /\ DOMAIN cd_params' = DOMAIN cd_params \cup {name}
             /\ cd_params'[name] = value
             /\ \A n \in DOMAIN cd_params \ {name} : cd_params'[n] = cd_params[n]
             /\ UNCHANGED <<cd_tune, wavetable, sw_pc, cd_pc, cd_len, cd_left, cd_seen,
                            cd_raised>>
             /\ UNCHANGED <<mixer, driver, generators, envelope, moog, tuning>>
    ]_vars

\* a ChipSynth that was retuned and then given a value under an unknown name
C25_Witness ==
  /\ sel = "chip"
  /\ \E name \in UnknownNames : name \in DOMAIN chip_params /\ chip_params[name] = One
  /\ chip_tune.osc1 # Hz(ChipOsc1)
  /\ chip_params["detune"] = Half

\* set_synth returns: the slot holds the new voice, every other slot that
\* existed holds what it held, and no mixing pass is in progress
ReplacesSlot ==
  (ctl_pc = "ss_cs" /\ ctl_pc' = "idle") =>
    /\ ~InMixingPass
    /\ active_synths'[ss_ch + 1] = ss_voice
    /\ \A i \in SlateChannels : i # ss_ch => active_synths'[i + 1] = active_synths[i + 1]
\* the slate changes in no other step, and a pass advances only the voice the
\* slot it has reached holds now (a voice that is on no slot is never advanced)
PlaysOccupant ==
  /\ active_synths' # active_synths => (ctl_pc = "ss_cs" /\ ctl_pc' = "idle")
  /\ \A v \in GoodVoices :
       phase'[v] # phase[v] =>
         /\ cb_pc = "mix" /\ cb_i < Len(active_synths) /\ ~SlotMuted(cb_i)
         /\ v = active_synths[cb_i + 1]
         /\ cb_gen' = cb_gen \cup {cb_i}
\* the pass that acquired the lock is over: generate() was called on slot i
Called(i) == i \in cb_gen \/ cb_fault = i

C27_Original ==
  /\ [][(cb_pc = "mix" /\ cb_i < Len(active_synths) /\ cb_i < NumStrips /\ mutes[cb_i]
           /\ cb_i' # cb_i) =>
          /\ phase' = phase /\ mixed' = mixed /\ cb_gen' = cb_gen
          /\ cb_skip' = cb_skip \cup {cb_i}]_vars
  /\ []((/\ cb_pc = "finally" /\ cb_skip # {}
         /\ \A i \in SlateChannels : active_synths[i + 1] # "bad") =>
          /\ \A i \in SlateChannels :
               (active_synths[i + 1] # None /\ i \notin cb_skip /\ ~SlotMuted(i))
                 => i \in cb_gen
          /\ outdata = MasterAndClip(mixed))

\* C29 (as claimed): from every state and level at which release_note() is
\* called, for every sustain in [0, 1], repeated generate() calls with no
\* further trigger() eventually bring the envelope to idle with level 0.
C29_Original == (env_state = "release") ~> (env_state = "idle" /\ env_level = 0)

\* C30 (as claimed): check() reports a match active only if its proximity
\* condition was true at every check() call over an unbroken interval longer
\* than hold_ms ending at the current call (so after the ABCD cooldown ABCD is
\* not reported until the four values have again been near for longer than
\* hold_ms), and ABCD is never reported twice within cooldown_ms.
C30_Original ==
  /\ [](\A n \in MatchNames :
          active_matches[n] => (near_since[n] # NoCand /\ clock - near_since[n] > HoldTicks))
  /\ [][active_matches'["ABCD"] /\ clock' # clock =>
          clock' - last_super_match_time > CooldownTicks]_vars

====
